---- MODULE Spec2Model ----
(***************************************************************************)
(* Forward collision guard (src/core/collision.py): the motion model       *)
(* F_matrix, the per-identity Kalman tracker PointWorldObject, and the     *)
(* registry ForwardCollisionGuard with update() and dangerous_objects().   *)
(*                                                                         *)
(* Numbers.  The program computes in IEEE doubles.  Here positions,        *)
(* velocities and accelerations are fixed-point integers in units of 1/XS, *)
(* entries of the motion matrix in units of 1/FS, covariances and gains in *)
(* units of 1/PS; every product is rounded to the nearest unit.  The one   *)
(* place where the program's rounding decides a discrete outcome, the      *)
(* accumulator `t += dt` of future_path, is modelled bit-exactly as an     *)
(* IEEE-754 double (see "doubles" below).                                  *)
(***************************************************************************)
EXTENDS Integers, Sequences, FiniteSets, TLC

\* ------------------------------------------------------------------ scales
XS == 1000      \* state vector: 1/1000 of a world unit
FS == 1000      \* motion matrix entries: 1/1000
PS == 10000     \* covariances and Kalman gains: 1/10000

\* ------------------------------------------------------------------ arithmetic
Abs(a) == IF a < 0 THEN -a ELSE a

\* a / b rounded to the nearest integer (b > 0), halves away from zero
RDiv(a, b) == IF a >= 0 THEN (a + b \div 2) \div b ELSE -((b \div 2 - a) \div b)

\* a * b / c rounded to the nearest integer (c > 0), without forming a * b
MulDiv(a, b, c) ==
  LET sg == IF (a < 0) = (b < 0) THEN 1 ELSE -1
      m == Abs(a)
      n == Abs(b)
  IN  sg * ((m \div c) * n + RDiv((m % c) * n, c))

\* tuples built element by element
Tup2(Op(_)) == <<Op(1), Op(2)>>
Tup6(Op(_)) == <<Op(1), Op(2), Op(3), Op(4), Op(5), Op(6)>>

Sum6(Op(_)) == Op(1) + Op(2) + Op(3) + Op(4) + Op(5) + Op(6)

\* np.dot of a 6x6 matrix in units 1/sa with a 6-vector: result in the vector's units
MatVec(A, v, sa) == Tup6(LAMBDA i : RDiv(Sum6(LAMBDA k : A[i][k] * v[k]), sa))

\* np.dot of two 6x6 matrices, A in units 1/sa: result in B's units
MatMul(A, B, sa) ==
  Tup6(LAMBDA i : Tup6(LAMBDA j : RDiv(Sum6(LAMBDA k : A[i][k] * B[k][j]), sa)))

Transpose(A) == Tup6(LAMBDA i : Tup6(LAMBDA j : A[j][i]))

MatAdd(A, B) == Tup6(LAMBDA i : Tup6(LAMBDA j : A[i][j] + B[i][j]))

\* ------------------------------------------------------------------ motion model
\* F_matrix with dt**2 in place of 0.5*dt**2
F_matrix_nohalf(dt) ==
  LET dt2 == RDiv(dt * dt, FS)
  IN  << <<FS, dt, dt2,  0,  0,   0>>,
         << 0, FS,  dt,  0,  0,   0>>,
         << 0,  0,  FS,  0,  0,   0>>,
         << 0,  0,   0, FS, dt, dt2>>,
         << 0,  0,   0,  0, FS,  dt>>,
         << 0,  0,   0,  0,  0,  FS>> >>

\* F_matrix(dt), dt in units 1/FS; entries in units 1/FS.  The float32 cast of the
\* entries changes them by less than 2^-24 relative, below the model's resolution.
F_matrix(dt) ==
  LET dt2 == RDiv(dt * dt, 2 * FS)
  IN  << <<FS, dt, dt2,  0,  0,   0>>,
         << 0, FS,  dt,  0,  0,   0>>,
         << 0,  0,  FS,  0,  0,   0>>,
         << 0,  0,   0, FS, dt, dt2>>,
         << 0,  0,   0,  0, FS,  dt>>,
         << 0,  0,   0,  0,  0,  FS>> >>

\* ------------------------------------------------------------------ doubles
\* A non-negative IEEE-754 double below 8 and at least 1/16, or zero, is a whole
\* number of units 2^-56.  It is held as five limbs <<n4, n3, n2, n1, n0>> in base
\* 2^14: n4 is the integer part, n3..n0 the 56 fraction bits.
LB == 16384

Pow2(k) == IF k = 0 THEN 1 ELSE IF k = 1 THEN 2 ELSE IF k = 2 THEN 4 ELSE IF k = 3 THEN 8
           ELSE IF k = 4 THEN 16 ELSE IF k = 5 THEN 32 ELSE 64

\* the number of low bits of n0 that do not fit in a 53-bit significand
DropBits(n) ==
  IF n[1] >= 4 THEN 6 ELSE IF n[1] >= 2 THEN 5 ELSE IF n[1] = 1 THEN 4
  ELSE IF n[2] >= 8192 THEN 3 ELSE IF n[2] >= 4096 THEN 2 ELSE IF n[2] >= 2048 THEN 1
  ELSE 0

\* carry propagation from the lowest limb upwards
DNorm(n) ==
  LET c0 == n[5] \div LB
      c1 == (n[4] + c0) \div LB
      c2 == (n[3] + c1) \div LB
      c3 == (n[2] + c2) \div LB
  IN  <<n[1] + c3, (n[2] + c2) % LB, (n[3] + c1) % LB, (n[4] + c0) % LB, n[5] % LB>>

\* round-to-nearest, ties-to-even, of the exact value n + f units, where f is
\* 0 (nothing), 1 (less than half a unit), 2 (half a unit) or 3 (more than half)
DRound(n, f) ==
  LET k == DropBits(n)
      p == Pow2(k)
      q == n[5] \div p
      r == n[5] % p
      up == IF k = 0
            THEN f = 3 \/ (f = 2 /\ q % 2 = 1)
            ELSE r > p \div 2 \/ (r = p \div 2 /\ (f # 0 \/ q % 2 = 1))
  IN  DNorm(<<n[1], n[2], n[3], n[4], (q + (IF up THEN 1 ELSE 0)) * p>>)

\* the double a + b: the exact sum, rounded
DAdd(a, b) == DRound(DNorm([i \in 1..5 |-> a[i] + b[i]]), 0)

\* a < b on doubles
DLess(a, b) ==
  \E i \in 1..5 : a[i] < b[i] /\ \A j \in 1..(i - 1) : a[j] = b[j]

DZero == <<0, 0, 0, 0, 0>>

\* the double nearest to the decimal m / 1000 (what the literal denotes)
ToDouble(m) ==
  LET r4 == m % 1000
      r3 == (r4 * LB) % 1000
      r2 == (r3 * LB) % 1000
      r1 == (r2 * LB) % 1000
      r0 == (r1 * LB) % 1000
      n == <<m \div 1000, (r4 * LB) \div 1000, (r3 * LB) \div 1000,
             (r2 * LB) \div 1000, (r1 * LB) \div 1000>>
      f == IF r0 = 0 THEN 0 ELSE IF 2 * r0 < 1000 THEN 1 ELSE IF 2 * r0 = 1000 THEN 2 ELSE 3
  IN  DRound(n, f)

\* ------------------------------------------------------------------ Kalman filter
\* kf.H: the measurement function observes x (index 1) and y (index 4)
KF_H == << <<1, 0, 0, 0, 0, 0>>, <<0, 0, 0, 1, 0, 0>> >>

\* kf.P = np.diag([1,2,4,1,2,4]) * 0.5, in units 1/PS
KF_P0 ==
  LET d == <<1, 2, 4, 1, 2, 4>>
  IN  Tup6(LAMBDA i : Tup6(LAMBDA j : IF i = j THEN (d[i] * PS) \div 2 ELSE 0))

\* kf.R = np.diag([z_std**2, z_std**2]) with z_std = 2, in units 1/PS
KF_R == << <<4 * PS, 0>>, <<0, 4 * PS>> >>

\* Q_discrete_white_noise(dim=3, dt=dt, var=0.01, block_size=2), dt in units 1/FS:
\* [[dt^4/4, dt^3/2, dt^2/2], [dt^3/2, dt^2, dt], [dt^2/2, dt, 1]] * var per axis
KF_Q(dt) ==
  LET d2 == RDiv(dt * dt, FS)              \* dt^2 in 1/FS
      d3 == RDiv(d2 * dt, FS)
      d4 == RDiv(d2 * d2, FS)
      \* var = 0.01: e / FS * 0.01 * PS
      q(e, den) == RDiv(e * PS, 100 * FS * den)
      B == << <<q(d4, 4), q(d3, 2), q(d2, 2)>>,
              <<q(d3, 2), q(d2, 1), q(dt, 1)>>,
              <<q(d2, 2), q(dt, 1), q(FS, 1)>> >>
  IN  Tup6(LAMBDA i : Tup6(LAMBDA j :
         IF (i <= 3) = (j <= 3)
         THEN B[IF i <= 3 THEN i ELSE i - 3][IF j <= 3 THEN j ELSE j - 3]
         ELSE 0))

\* object_tracker(x_init, dt): the filter after construction.  kf.F and kf.Q are
\* functions of dt alone and never reassigned: the record keeps dt in their place.
object_tracker(x_init, dt) ==
  [x |-> <<x_init[1], 0, 0, x_init[2], 0, 0>>,
   P |-> KF_P0,
   dt |-> dt]

\* kf.predict(): x = F x, P = alpha_sq * F P F' + Q with alpha_sq = 1
KF_predict(kf) ==
  LET F == F_matrix(kf.dt)
  IN  [kf EXCEPT !.x = MatVec(F, kf.x, FS),
                 !.P = MatAdd(MatMul(MatMul(F, kf.P, FS), Transpose(F), FS), KF_Q(kf.dt))]

\* kf.update(z): y = z - Hx, S = HPH' + R, K = PH' inv(S), x = x + Ky,
\* P = (I-KH) P (I-KH)' + K R K'
KF_update(kf, z) ==
  LET y == Tup2(LAMBDA m : z[m] - Sum6(LAMBDA k : KF_H[m][k] * kf.x[k]))
      PHT == Tup6(LAMBDA i : Tup2(LAMBDA m : Sum6(LAMBDA k : kf.P[i][k] * KF_H[m][k])))
      S == Tup2(LAMBDA m : Tup2(LAMBDA n :
              Sum6(LAMBDA k : KF_H[m][k] * PHT[k][n]) + KF_R[m][n]))
      det == MulDiv(S[1][1], S[2][2], PS) - MulDiv(S[1][2], S[2][1], PS)
      SI == << << RDiv(S[2][2] * PS, det), -RDiv(S[1][2] * PS, det)>>,
               <<-RDiv(S[2][1] * PS, det),  RDiv(S[1][1] * PS, det)>> >>
      K == Tup6(LAMBDA i : Tup2(LAMBDA m :
              RDiv(PHT[i][1] * SI[1][m] + PHT[i][2] * SI[2][m], PS)))
      I_KH == Tup6(LAMBDA i : Tup6(LAMBDA j :
                (IF i = j THEN PS ELSE 0) - (K[i][1] * KF_H[1][j] + K[i][2] * KF_H[2][j])))
      KRKT == Tup6(LAMBDA i : Tup6(LAMBDA j :
                RDiv(RDiv(K[i][1] * KF_R[1][1], PS) * K[j][1]
                     + RDiv(K[i][2] * KF_R[2][2], PS) * K[j][2], PS)))
  IN  [kf EXCEPT !.x = Tup6(LAMBDA i : kf.x[i] + RDiv(K[i][1] * y[1] + K[i][2] * y[2], PS)),
                 !.P = MatAdd(MatMul(MatMul(I_KH, kf.P, PS), Transpose(I_KH), PS), KRKT)]

\* ------------------------------------------------------------------ geometry
\* floor of the square root, by bisection
RECURSIVE IsqrtIn(_, _, _)
IsqrtIn(n, lo, hi) ==
  IF hi - lo <= 1 THEN lo
  ELSE LET mid == (lo + hi) \div 2
       IN  IF mid * mid <= n THEN IsqrtIn(n, mid, hi) ELSE IsqrtIn(n, lo, mid)

Isqrt(n) == IsqrtIn(n, 0, 46341)

\* np.linalg.norm of a pair, rounded down to the unit
Norm(v) == Isqrt(v[1] * v[1] + v[2] * v[2])

\* a / b <= c / d for b, d > 0
FracLeq(a, b, c, d) == a * d <= c * b

\* the parameter interval <<lo_num, lo_den, hi_num, hi_den>> of p + t * d inside
\* [lo, hi] on one axis; <<1, 1, 0, 1>> (empty) when it never is
AxisSpan(p, d, lo, hi) ==
  IF d = 0 THEN (IF lo <= p /\ p <= hi THEN <<0, 1, 1, 1>> ELSE <<1, 1, 0, 1>>)
  ELSE IF d > 0 THEN <<lo - p, d, hi - p, d>>
  ELSE <<p - hi, -d, p - lo, -d>>

\* the closed segment a-b meets the closed box <<x0, y0, x1, y1>>
SegmentMeetsBox(a, b, box) ==
  LET sx == AxisSpan(a[1], b[1] - a[1], box[1], box[3])
      sy == AxisSpan(a[2], b[2] - a[2], box[2], box[4])
  IN  /\ FracLeq(sx[1], sx[2], sx[3], sx[4])
      /\ FracLeq(sy[1], sy[2], sy[3], sy[4])
      /\ FracLeq(sx[1], sx[2], sy[3], sy[4])
      /\ FracLeq(sy[1], sy[2], sx[3], sx[4])
      /\ FracLeq(sx[1], sx[2], 1, 1) /\ FracLeq(sy[1], sy[2], 1, 1)
      /\ FracLeq(0, 1, sx[3], sx[4]) /\ FracLeq(0, 1, sy[3], sy[4])

\* LineString(line).intersects(zone) for a rectangular zone: some point of the
\* polyline lies in the closed rectangle
intersects(line, box) ==
  \E i \in 1..(Len(line) - 1) : SegmentMeetsBox(line[i], line[i + 1], box)

\* ------------------------------------------------------------------ tracked object
None == <<>>            \* Python's None, for xy and vxvy
INF == 2147483647       \* np.inf

\* __init__ that caches the initial position as xy
PointWorldObject_located(xyz, dt) ==
  [kf |-> object_tracker(SubSeq(xyz, 1, 2), dt), xy |-> SubSeq(xyz, 1, 2), vxvy |-> None]

\* PointWorldObject.__init__(xyz, dt)
PointWorldObject(xyz, dt) ==
  [kf |-> object_tracker(SubSeq(xyz, 1, 2), dt), xy |-> None, vxvy |-> None]

\* update without the predict step
PointWorldObject_update_nopredict(obj, loc) ==
  LET kf == KF_update(obj.kf, loc)
  IN  [kf |-> kf,
       xy |-> Tup2(LAMBDA m : Sum6(LAMBDA k : KF_H[m][k] * kf.x[k])),
       vxvy |-> <<kf.x[2], kf.x[5]>>]

\* PointWorldObject.update(location)
PointWorldObject_update(obj, loc) ==
  LET kf == KF_update(KF_predict(obj.kf), loc)
  IN  [kf |-> kf,
       xy |-> Tup2(LAMBDA m : Sum6(LAMBDA k : KF_H[m][k] * kf.x[k])),
       vxvy |-> <<kf.x[2], kf.x[5]>>]

location(obj) == obj.xy

\* distance as in the earlier variant src/collision.py: 0 before the first update
distance_v0(obj) == IF obj.xy = None THEN 0 ELSE Norm(obj.xy)

distance(obj) == IF obj.xy = None THEN INF ELSE Norm(obj.xy)

relative_speed(obj) == IF obj.vxvy = None THEN 0 ELSE Norm(obj.vxvy)

\* the loop with `while t <= length`
RECURSIVE future_path_loop_leq(_, _, _, _, _)
future_path_loop_leq(t, X, F, length, dt) ==
  IF Len(X) >= 1 /\ ~DLess(length, t)
  THEN future_path_loop_leq(DAdd(t, dt), Append(X, MatVec(F, X[Len(X)], FS)), F, length, dt)
  ELSE [t |-> t, X |-> X]

\* the while loop of future_path: t the accumulated time (a double), X the states
\* collected so far (X = [x] on entry, never empty); the loop's x is always the
\* last element of X
RECURSIVE future_path_loop(_, _, _, _, _)
future_path_loop(t, X, F, length, dt) ==
  IF Len(X) >= 1 /\ DLess(t, length)
  THEN future_path_loop(DAdd(t, dt), Append(X, MatVec(F, X[Len(X)], FS)), F, length, dt)
  ELSE [t |-> t, X |-> X]

\* self.kf.H @ np.hstack(X), transposed: the (x, y) of every collected state
RECURSIVE positions(_, _)
positions(X, i) ==
  IF i > Len(X) THEN <<>>
  ELSE <<Tup2(LAMBDA m : Sum6(LAMBDA k : KF_H[m][k] * X[i][k]))>> \o positions(X, i + 1)

\* future_path that steps self.kf.x in place instead of a local copy
future_path_inplace(obj, length, dt) ==
  LET r == future_path_loop(DZero, <<obj.kf.x>>, F_matrix(dt),
                            ToDouble(length), ToDouble(dt))
  IN  [line |-> positions(r.X, 1),
       t |-> r.t,
       self |-> [obj EXCEPT !.kf.x = r.X[Len(r.X)]]]

\* future_path(length, dt), both decimals in units 1/1000: the polyline returned
\* (line), the accumulator at exit (t) and the object as the call leaves it
\* (self: the loop rebinds its local x and assigns no attribute)
future_path(obj, length, dt) ==
  LET r == future_path_loop(DZero, <<obj.kf.x>>, F_matrix(dt),
                            ToDouble(length), ToDouble(dt))
  IN  [line |-> positions(r.X, 1),
       t |-> r.t,
       self |-> obj]

\* ------------------------------------------------------------------ guard
\* the guard's construction parameters: the scenario's danger zone, radius and
\* prediction horizon, and the default tracking step dt = 1
Guard ==
  [danger_zone |-> <<0, -(3 * XS) \div 2, 20 * XS, (3 * XS) \div 2>>,
   safety_radius |-> 25 * XS,
   prediction_length |-> 2 * FS,
   prediction_step |-> FS \div 10,
   dt |-> 1 * FS]

\* ref_points is a dict: a sequence of <<tid, <<x, y, z>>>> in insertion order
Keys(rp) == {rp[i][1] : i \in DOMAIN rp}
Get(rp, tid) == rp[CHOOSE i \in DOMAIN rp : rp[i][1] = tid][2]

\* the iteration that also runs predict/update on the object it has just built
update_one_then_update(objs, tid, pt, g) ==
  IF tid \notin DOMAIN objs
  THEN objs @@ (tid :> PointWorldObject_update(PointWorldObject(pt, g.dt), SubSeq(pt, 1, 2)))
  ELSE [objs EXCEPT ![tid] = PointWorldObject_update(objs[tid], SubSeq(pt, 1, 2))]

\* one iteration of the second loop of update
update_one(objs, tid, pt, g) ==
  IF tid \notin DOMAIN objs
  THEN objs @@ (tid :> PointWorldObject(pt, g.dt))
  ELSE [objs EXCEPT ![tid] = PointWorldObject_update(objs[tid], SubSeq(pt, 1, 2))]

\* the loop that reads every measurement from the first entry of ref_points
RECURSIVE update_loop_firstpoint(_, _, _, _)
update_loop_firstpoint(objs, rp, i, g) ==
  IF i > Len(rp) THEN objs
  ELSE update_loop_firstpoint(update_one(objs, rp[i][1], rp[1][2], g), rp, i + 1, g)

\* the second loop of update, over ref_points.keys() in insertion order
RECURSIVE update_loop(_, _, _, _)
update_loop(objs, rp, i, g) ==
  IF i > Len(rp) THEN objs
  ELSE update_loop(update_one(objs, rp[i][1], Get(rp, rp[i][1]), g), rp, i + 1, g)

\* the first loop that pops nothing
update_pop_keep(objs, rp) == objs

\* the first loop of update: pop every tracked identity absent from ref_points
update_pop(objs, rp) == [t \in {u \in DOMAIN objs : u \in Keys(rp)} |-> objs[t]]

\* ForwardCollisionGuard.update(ref_points): the registry afterwards
update(objs, rp, g) == update_loop(update_pop(objs, rp), rp, 1, g)

\* the comprehension without the safety radius test
RECURSIVE dangerous_loop_any_distance(_, _, _)
dangerous_loop_any_distance(todo, acc, g) ==
  IF todo = {} THEN acc
  ELSE LET tid == CHOOSE t \in todo : \A u \in todo : t <= u
           obj == acc.objects[tid]
           path == future_path(obj, g.prediction_length, g.prediction_step)
           hit == intersects(path.line, g.danger_zone)
       IN  dangerous_loop_any_distance(todo \ {tid},
                          [ret |-> IF hit THEN acc.ret @@ (tid :> path.self) ELSE acc.ret,
                           objects |-> [acc.objects EXCEPT ![tid] = path.self]],
                          g)

\* the comprehension of dangerous_objects, one identity at a time: acc.ret is the
\* dict built so far, acc.objects the registry as the calls made so far leave it.
\* `and` short-circuits: future_path is called only for an object within the radius.
RECURSIVE dangerous_loop(_, _, _)
dangerous_loop(todo, acc, g) ==
  IF todo = {} THEN acc
  ELSE LET tid == CHOOSE t \in todo : \A u \in todo : t <= u
           obj == acc.objects[tid]
           near == distance(obj) < g.safety_radius
           path == future_path(obj, g.prediction_length, g.prediction_step)
           hit == near /\ intersects(path.line, g.danger_zone)
           after == IF near THEN path.self ELSE obj
       IN  dangerous_loop(todo \ {tid},
                          [ret |-> IF hit THEN acc.ret @@ (tid :> after) ELSE acc.ret,
                           objects |-> [acc.objects EXCEPT ![tid] = after]],
                          g)

\* ForwardCollisionGuard.dangerous_objects(): the dict returned (ret) and the
\* registry as the call leaves it (objects)
dangerous_objects(objs, g) == dangerous_loop(DOMAIN objs, [ret |-> <<>>, objects |-> objs], g)

\* ------------------------------------------------------------------ state
VARIABLES
  objects,   \* self.objects of the guard: identity -> tracked object
  objects2,  \* self.objects of a second guard, run side by side with the first
  frames,    \* history: the ref_points of the first guard's update calls so far
  ret,       \* the last query call and what it returned
  arg        \* the input of a function applied on its own

vars == <<objects, objects2, frames, ret, arg>>

IDS == {1, 2}

\* the measurements each identity may come with
Pts(tid) ==
  IF tid = 1 THEN {<<0, 15 * XS, 0>>, <<0, 10 * XS, 0>>, <<0, 5 * XS, 0>>}
  ELSE {<<30 * XS, 0, 0>>, <<19 * XS, 0, 0>>}

\* every ref_points dict over IDS, in every insertion order
AllFrames ==
  LET E == {e \in IDS \X (Pts(1) \cup Pts(2)) : e[2] \in Pts(e[1])}
  IN  {<<>>} \cup {<<e>> : e \in E}
             \cup {<<ef[1], ef[2]>> : ef \in {p \in E \X E : p[1][1] # p[2][1]}}

\* the dicts whose keys were inserted in increasing order
Frames == {rp \in AllFrames : \A i \in 1..(Len(rp) - 1) : rp[i][1] < rp[i + 1][1]}

\* the same dict with its keys in increasing order
Sorted(rp) ==
  CHOOSE f \in Frames : Keys(f) = Keys(rp) /\ \A k \in Keys(rp) : Get(f, k) = Get(rp, k)

NoRet == [op |-> "none"]
NoArg == [fn |-> "none"]

Init ==
  /\ objects = <<>> /\ objects2 = <<>> /\ frames = <<>>
  /\ ret = NoRet /\ arg = NoArg

\* ---- the guard's operations
\* guard.update(rp), while fewer than max frames have been processed
Update(rp, max) ==
  /\ Len(frames) < max
  /\ objects' = update(objects, rp, Guard)
  /\ frames' = Append(frames, rp)
  /\ ret' = NoRet
  /\ UNCHANGED <<objects2, arg>>

\* guard.dangerous_objects()
DangerousObjects ==
  \E r \in {dangerous_objects(objects, Guard)} :
    /\ objects' = r.objects
    /\ ret' = [op |-> "dangerous_objects", val |-> r.ret]
    /\ UNCHANGED <<objects2, frames, arg>>

\* guard.objects[tid].location
Location(tid) ==
  /\ tid \in DOMAIN objects
  /\ ret' = [op |-> "location", tid |-> tid, val |-> location(objects[tid])]
  /\ UNCHANGED <<objects, objects2, frames, arg>>

\* guard.objects[tid].distance
Distance(tid) ==
  /\ tid \in DOMAIN objects
  /\ ret' = [op |-> "distance", tid |-> tid, val |-> distance(objects[tid])]
  /\ UNCHANGED <<objects, objects2, frames, arg>>

\* guard.objects[tid].relative_speed
RelativeSpeed(tid) ==
  /\ tid \in DOMAIN objects
  /\ ret' = [op |-> "relative_speed", tid |-> tid, val |-> relative_speed(objects[tid])]
  /\ UNCHANGED <<objects, objects2, frames, arg>>

\* guard.objects[tid].future_path(a[1], a[2])
FuturePath(tid, a) ==
  /\ tid \in DOMAIN objects
  /\ \E r \in {future_path(objects[tid], a[1], a[2])} :
       /\ objects' = [objects EXCEPT ![tid] = r.self]
       /\ ret' = [op |-> "future_path", tid |-> tid, args |-> a, val |-> r.line]
  /\ UNCHANGED <<objects2, frames, arg>>

\* ---- Spec: frames of update calls, each possibly followed by dangerous_objects()
MaxFrames == 3

Next == (\E rp \in Frames : Update(rp, MaxFrames)) \/ DangerousObjects

Spec == Init /\ [][Next]_vars

\* ---- SpecAcc: update calls and every read-only call, in any order
MaxFramesAcc == 2

AccPts == {<<0, 15 * XS, 0>>, <<0, 10 * XS, 0>>, <<19 * XS, 0, 0>>}

FramesAcc == {rp \in Frames : \A i \in DOMAIN rp : rp[i][2] \in AccPts}

\* (length, dt) of the future_path calls: the defaults and a coarser step
PathArgs == {<<1 * FS, FS \div 10>>, <<1 * FS, FS \div 4>>}

NextAcc ==
  \/ \E rp \in FramesAcc : Update(rp, MaxFramesAcc)
  \/ DangerousObjects
  \/ \E tid \in IDS : Location(tid)
  \/ \E tid \in IDS : Distance(tid)
  \/ \E tid \in IDS : RelativeSpeed(tid)
  \/ \E tid \in IDS, a \in PathArgs : FuturePath(tid, a)

SpecAcc == Init /\ [][NextAcc]_vars

\* ---- SpecPair: two guards fed frame by frame; the frames agree on identity 1
\* (absent from both, or in both with the same measurement) and are otherwise free
MaxFramesPair == 2

PairPts == {<<0, 15 * XS, 0>>, <<0, 10 * XS, 0>>, <<30 * XS, 0, 0>>, <<19 * XS, 0, 0>>}

FramesPair == {rp \in AllFrames : \A i \in DOMAIN rp : rp[i][2] \in PairPts}

AgreeOn(tid, rp1, rp2) ==
  /\ (tid \in Keys(rp1)) = (tid \in Keys(rp2))
  /\ tid \in Keys(rp1) => Get(rp1, tid) = Get(rp2, tid)

PairUpdate(rp1, rp2) ==
  /\ Len(frames) < MaxFramesPair
  /\ AgreeOn(1, rp1, rp2)
  /\ objects' = update(objects, rp1, Guard)
  /\ objects2' = update(objects2, rp2, Guard)
  /\ frames' = Append(frames, Sorted(rp1))
  /\ UNCHANGED <<ret, arg>>

NextPair == \E rp1 \in FramesPair, rp2 \in FramesPair : PairUpdate(rp1, rp2)

SpecPair == Init /\ [][NextPair]_vars

\* ---- SpecF: F_matrix(dt) applied to a state
MaxDtTenths == 5

\* steps of whole tenths, and steps that are not
FDts == {(k * FS) \div 10 : k \in 1..MaxDtTenths} \cup {FS \div 30, FS \div 4, (5 * FS) \div 2}

FVals == {-2 * XS, 0, 3 * XS}

FStates == FVals \X FVals \X FVals \X FVals \X FVals \X FVals

InitF ==
  /\ objects = <<>> /\ objects2 = <<>> /\ frames = <<>> /\ ret = NoRet
  /\ arg \in [fn : {"F_matrix"}, dt : FDts, state : FStates]

ApplyF ==
  /\ ret = NoRet
  /\ ret' = [op |-> "F_matrix", val |-> MatVec(F_matrix(arg.dt), arg.state, FS)]
  /\ UNCHANGED <<objects, objects2, frames, arg>>

SpecF == InitF /\ [][ApplyF]_vars

\* ---- SpecPath: future_path(length, dt) on an object with a given filter state
MaxLenTenths == 20

PLens == {(k * FS) \div 10 : k \in 1..MaxLenTenths}

PSteps == {FS \div 10, FS \div 5, FS \div 4, FS \div 2}

PStates == {<<0, 0, 0, 15 * XS, -5 * XS, 0>>, <<2 * XS, -XS, XS \div 2, 7 * XS, -6 * XS, -2 * XS>>}

ObjectAt(x) == [PointWorldObject(<<x[1], x[4], 0>>, Guard.dt) EXCEPT !.kf.x = x]

InitPath ==
  /\ objects = <<>> /\ objects2 = <<>> /\ frames = <<>> /\ ret = NoRet
  /\ arg \in [fn : {"future_path"}, length : PLens, dt : PSteps, state : PStates]

ApplyPath ==
  /\ ret = NoRet
  /\ \E r \in {future_path(ObjectAt(arg.state), arg.length, arg.dt)} :
       ret' = [op |-> "future_path", val |-> r.line, t |-> r.t, self |-> r.self]
  /\ UNCHANGED <<objects, objects2, frames, arg>>

SpecPath == InitPath /\ [][ApplyPath]_vars

\* ------------------------------------------------------------------ history
LastFrame == frames[Len(frames)]
PrevFrame == frames[Len(frames) - 1]

\* the measurements of tid in the frames since its tracked object was built
RECURSIVE HistFrom(_, _)
HistFrom(tid, i) ==
  IF i = 0 \/ tid \notin Keys(frames[i]) THEN <<>>
  ELSE HistFrom(tid, i - 1) \o <<Get(frames[i], tid)>>

Hist(tid) == HistFrom(tid, Len(frames))

\* tid was first seen in the most recent frame, after at least one frame without it
NewInLastFrame(tid) ==
  Len(frames) >= 2 /\ tid \in Keys(LastFrame) /\ tid \notin Keys(PrevFrame)

\* ------------------------------------------------------------------ C1
\* C1: after any sequence of update calls the identities in the registry are
\* exactly the keys of the most recent ref_points (no identity before any call).
C1_RegistryIsLastFrame ==
  DOMAIN objects = (IF Len(frames) = 0 THEN {} ELSE Keys(LastFrame))

\* an identity tracked after the previous frame is gone, another one is new
C1_Witness ==
  /\ Len(frames) >= 2
  /\ 1 \in Keys(PrevFrame) /\ 1 \notin Keys(LastFrame) /\ 1 \notin DOMAIN objects
  /\ 2 \notin Keys(PrevFrame) /\ 2 \in Keys(LastFrame) /\ 2 \in DOMAIN objects

\* ------------------------------------------------------------------ C3
Tol == XS \div 100

Close(a, b) == Abs(a[1] - b[1]) <= Tol /\ Abs(a[2] - b[2]) <= Tol

\* C3 as stated: an identity absent from frame 1 and present in frame 2 is, after
\* the update call for frame 2, in the registry with a reported location equal to
\* the frame-2 measurement within tolerance.
C3_Original ==
  \A tid \in IDS : NewInLastFrame(tid) =>
    /\ tid \in DOMAIN objects
    /\ location(objects[tid]) # None
    /\ Close(location(objects[tid]), Get(LastFrame, tid))

\* C3 amended: such an identity is in the registry, its filter state holds the
\* frame-2 measurement exactly with zero velocity and acceleration, and its
\* reported location is still None: location is set by the next update call only.
C3_Amended ==
  \A tid \in IDS : NewInLastFrame(tid) =>
    /\ tid \in DOMAIN objects
    /\ location(objects[tid]) = None
    /\ objects[tid].kf.x = <<Get(LastFrame, tid)[1], 0, 0, Get(LastFrame, tid)[2], 0, 0>>

C3_Witness ==
  NewInLastFrame(2) /\ 2 \in DOMAIN objects /\ Get(LastFrame, 2) = <<19 * XS, 0, 0>>

\* ------------------------------------------------------------------ C5
\* C5: a tracked object not updated since its construction reports location None,
\* distance infinite and relative speed 0; after an update its location is the
\* filter's (x, y) and its distance the finite Euclidean norm of that pair.
C5_Accessors ==
  \A tid \in DOMAIN objects :
    LET obj == objects[tid]
        d == distance(obj)
    IN  IF Len(Hist(tid)) = 1
        THEN location(obj) = None /\ d = INF /\ relative_speed(obj) = 0
        ELSE /\ location(obj) = <<obj.kf.x[1], obj.kf.x[4]>>
             /\ d # INF /\ d >= 0
             /\ d * d <= obj.xy[1] * obj.xy[1] + obj.xy[2] * obj.xy[2]
             /\ obj.xy[1] * obj.xy[1] + obj.xy[2] * obj.xy[2] < (d + 1) * (d + 1)

\* one object fresh, another updated and away from the origin
C5_Witness ==
  /\ DOMAIN objects = {1, 2}
  /\ Len(Hist(1)) = 1 /\ distance(objects[1]) = INF
  /\ Len(Hist(2)) = 2 /\ distance(objects[2]) > 20 * XS /\ distance(objects[2]) < 30 * XS

\* ------------------------------------------------------------------ C2
\* the closed segment a-b meets the closed box, by separating axes: the spans
\* overlap on both axes and the corners are not all strictly on one side of a-b
Side(a, b, c) == (b[1] - a[1]) * (c[2] - a[2]) - (b[2] - a[2]) * (c[1] - a[1])

Min2(a, b) == IF a <= b THEN a ELSE b
Max2(a, b) == IF a >= b THEN a ELSE b

RefSegmentMeetsBox(a, b, box) ==
  LET corners == {<<box[1], box[2]>>, <<box[3], box[2]>>, <<box[3], box[4]>>, <<box[1], box[4]>>}
  IN  /\ Min2(a[1], b[1]) <= box[3] /\ Max2(a[1], b[1]) >= box[1]
      /\ Min2(a[2], b[2]) <= box[4] /\ Max2(a[2], b[2]) >= box[2]
      /\ ~ \A c \in corners : Side(a, b, c) > 0
      /\ ~ \A c \in corners : Side(a, b, c) < 0

RefIntersects(line, box) ==
  \E i \in 1..(Len(line) - 1) : RefSegmentMeetsBox(line[i], line[i + 1], box)

PredictedLine(obj) == future_path(obj, Guard.prediction_length, Guard.prediction_step).line

\* updated, and strictly closer to the origin than the safety radius
WithinRadius(obj) ==
  /\ obj.xy # None
  /\ obj.xy[1] * obj.xy[1] + obj.xy[2] * obj.xy[2] < Guard.safety_radius * Guard.safety_radius

\* C2: dangerous_objects() returns exactly the registry entries whose distance is
\* strictly below safety_radius and whose predicted path meets the danger zone, each
\* with its tracked object: a path that stays outside the zone excludes the object,
\* and so does a distance of safety_radius or more, even when the path crosses.
C2_DangerousExactly ==
  ret.op = "dangerous_objects" =>
    /\ DOMAIN ret.val =
         {tid \in DOMAIN objects :
            WithinRadius(objects[tid])
            /\ RefIntersects(PredictedLine(objects[tid]), Guard.danger_zone)}
    /\ \A tid \in DOMAIN ret.val : ret.val[tid] = objects[tid]

\* identity 1 is reported; identity 2 has been updated, its path crosses the zone,
\* and it is left out because it is beyond the radius
C2_Witness ==
  /\ ret.op = "dangerous_objects"
  /\ DOMAIN objects = {1, 2}
  /\ DOMAIN ret.val = {1}
  /\ objects[2].xy # None
  /\ ~WithinRadius(objects[2])
  /\ RefIntersects(PredictedLine(objects[2]), Guard.danger_zone)

\* ------------------------------------------------------------------ C7
\* the scenario's measurements: first seen at (0, 15), then 5 closer along y per frame
Scenario2 == << <<0, 15 * XS, 0>>, <<0, 10 * XS, 0>> >>
Scenario3 == << <<0, 15 * XS, 0>>, <<0, 10 * XS, 0>>, <<0, 5 * XS, 0>> >>

\* C7 as stated: in the scenario the identity is reported as soon as one update
\* call has given it a nonzero velocity estimate.
C7_Original ==
  ret.op = "dangerous_objects" =>
    \A tid \in DOMAIN objects :
      (Hist(tid) \in {Scenario2, Scenario3} /\ objects[tid].vxvy # <<0, 0>>)
        => tid \in DOMAIN ret.val

\* C7 amended: in the scenario the identity is reported after its second update
\* call (third frame, measurement (0, 5)); after its first update call the velocity
\* estimate is nonzero and towards the vehicle, but the identity is not reported.
C7_Amended ==
  ret.op = "dangerous_objects" =>
    \A tid \in DOMAIN objects :
      /\ Hist(tid) = Scenario3 => tid \in DOMAIN ret.val
      /\ Hist(tid) = Scenario2 =>
           /\ tid \notin DOMAIN ret.val
           /\ objects[tid].vxvy[1] = 0 /\ objects[tid].vxvy[2] < 0

C7_Witness ==
  ret.op = "dangerous_objects" /\ 1 \in DOMAIN ret.val /\ Hist(1) = Scenario3

\* ------------------------------------------------------------------ C10
\* C10: dangerous_objects() reports only identities present in both of the two most
\* recent frames; an object built in the most recent frame (first seen, or seen
\* again after a frame without it) is a fresh filter on which neither predict nor
\* update has run, with infinite distance.
C10_NeedsTwoFrames ==
  /\ ret.op = "dangerous_objects" =>
       \A tid \in DOMAIN ret.val :
         Len(frames) >= 2 /\ tid \in Keys(LastFrame) /\ tid \in Keys(PrevFrame)
  /\ \A tid \in DOMAIN objects :
       Len(Hist(tid)) = 1 =>
         /\ objects[tid] = PointWorldObject(Get(LastFrame, tid), Guard.dt)
         /\ objects[tid].kf.P = KF_P0
         /\ distance(objects[tid]) = INF

\* identity 2 seen, missed, seen again inside the danger zone, and not reported
C10_Witness ==
  /\ ret.op = "dangerous_objects"
  /\ Len(frames) = 3
  /\ 2 \in Keys(frames[1]) /\ 2 \notin Keys(frames[2])
  /\ 2 \in Keys(frames[3]) /\ Get(frames[3], 2) = <<19 * XS, 0, 0>>
  /\ 2 \notin DOMAIN ret.val

\* ------------------------------------------------------------------ C4
\* C4: dangerous_objects() and the accessors location, distance, relative_speed and
\* future_path are read-only: a step that is not an update call leaves the registry,
\* every filter state and covariance and every cached xy / vxvy as they were, and a
\* future_path call repeated with the same arguments returns the same polyline.
C4_ReadOnly ==
  [][frames' = frames =>
       /\ objects' = objects
       /\ (ret.op = "future_path" /\ ret'.op = "future_path"
           /\ ret'.tid = ret.tid /\ ret'.args = ret.args) => ret'.val = ret.val]_vars

\* a future_path call on an updated object has returned its 12-point polyline
C4_Witness ==
  /\ ret.op = "future_path"
  /\ objects[ret.tid].xy # None
  /\ objects[ret.tid].vxvy # <<0, 0>>
  /\ Len(ret.val) > 2 /\ ret.val[1] # ret.val[2]

\* ------------------------------------------------------------------ C6
\* <<x, F x, F F x, ...>> up to k applications of the motion model for dt:
\* element k + 1 is the motion model applied k times to x = S[1]
RECURSIVE FPow(_, _, _)
FPow(dt, S, k) ==
  IF Len(S) > k THEN S
  ELSE FPow(dt, Append(S, MatVec(F_matrix(dt), S[Len(S)], FS)), k)

\* <<0.0, 0.0 + dt, (0.0 + dt) + dt, ...>>: element k + 1 is the double reached by
\* adding dt to 0.0 k times
RECURSIVE DSum(_, _, _)
DSum(dt, T, k) ==
  IF Len(T) > k THEN T
  ELSE DSum(dt, Append(T, DAdd(T[Len(T)], ToDouble(dt))), k)

\* ceil(length / dt) of the decimals
CeilDiv(a, b) == (a + b - 1) \div b

Pos(x) == <<x[1], x[4]>>

\* the samples are the roll-out of the motion model from the current state
C6_RollOut ==
  /\ ret.val[1] = Pos(arg.state)
  /\ LET S == FPow(arg.dt, <<arg.state>>, Len(ret.val) - 1)
     IN  \A k \in 1..(Len(ret.val) - 1) : ret.val[k + 1] = Pos(S[k + 1])

AxisStep(o, s, b, d) ==
  /\ 200 * (o[b] - s[b]) = 20 * s[b + 1] * d + s[b + 2] * d * d
  /\ 10 * (o[b + 1] - s[b + 1]) = s[b + 2] * d
  /\ o[b + 2] = s[b + 2]

\* C8: F_matrix(dt) applied to a state is the per-axis constant-acceleration step,
\* with no coupling between the axes; a state at rest is returned unchanged.
C8_MotionModel ==
  ret.op = "F_matrix" =>
    LET s == arg.state
        o == ret.val
        tenth == FS \div 10
        ox == MatVec(F_matrix(arg.dt), <<s[1], s[2], s[3], 0, 0, 0>>, FS)
        oy == MatVec(F_matrix(arg.dt), <<0, 0, 0, s[4], s[5], s[6]>>, FS)
    IN  /\ (s[2] = 0 /\ s[3] = 0 /\ s[5] = 0 /\ s[6] = 0) => o = s
        /\ o = <<ox[1], ox[2], ox[3], oy[4], oy[5], oy[6]>>
        /\ ox[4] = 0 /\ ox[5] = 0 /\ ox[6] = 0 /\ oy[1] = 0 /\ oy[2] = 0 /\ oy[3] = 0
        /\ arg.dt % tenth = 0 =>
             AxisStep(o, s, 1, arg.dt \div tenth) /\ AxisStep(o, s, 4, arg.dt \div tenth)

\* dt = 0.1 on x = 3, vx = -2, ax = 3: x becomes 3 - 0.2 + 0.015
C8_Witness ==
  /\ ret.op = "F_matrix"
  /\ arg.dt = FS \div 10
  /\ arg.state = <<3 * XS, -2 * XS, 3 * XS, 0, 3 * XS, -2 * XS>>
  /\ ret.val[1] = 3 * XS - XS \div 5 + (3 * XS) \div 200
  /\ ret.val[4] = (3 * XS) \div 10 - XS \div 100

\* ------------------------------------------------------------------ C9
\* C9: two guards whose frames agree on identity 1 hold the same tracked object for
\* it after every frame (or both none), whatever the other identity's presence and
\* measurements and whatever the insertion order of the frames' keys.
C9_Independent ==
  /\ (1 \in DOMAIN objects) = (1 \in DOMAIN objects2)
  /\ 1 \in DOMAIN objects => objects[1] = objects2[1]

\* identity 1 updated in both guards while identity 2 differs between them
C9_Witness ==
  /\ 1 \in DOMAIN objects /\ objects[1].xy # None /\ objects[1].vxvy # <<0, 0>>
  /\ 2 \in DOMAIN objects /\ 2 \in DOMAIN objects2
  /\ objects[2].xy # None /\ objects2[2].xy = None
====
